---------------------------- MODULE Spec2Model ----------------------------
(***************************************************************************)
(* A model of the SDK's three components:                                  *)
(*   - singer_sdk/sinks.py: Sink (buffer, tallies, drain lifecycle);        *)
(*   - tap_base/TapBase.py: TapBase (constructor, validate_config,          *)
(*     get_connection);                                                     *)
(*   - sample_tap_snowflake: SampleTapSnowflakeConnection.query.            *)
(* Each component has its own specification over the shared variables:      *)
(* Spec (Sink), SpecOverride, SpecTwoSinks, SpecRecord, SpecTap,             *)
(* SpecValidate, SpecQuery.                                                 *)
(***************************************************************************)
EXTENDS Integers, Sequences, FiniteSets, TLC

\* ------------------------------------------------------------------ bounds

\* Sink: records ever loaded, list objects ever allocated, tally arguments.
MaxLoads == 4
MaxLists == 3
MaxCount == 2
MaxTally == 2

\* Tap: option sets declared, get_connection calls after construction.
MaxSets == 2
MaxGetCalls == 3

\* query: statements in a list, largest cur.rowcount, largest max_records.
MaxStmts == 2
MaxRowCount == 2
MaxLimit == 2

\* _validate_record: fields in a record.
MaxFields == 2

\* The record values a host loads (two are enough to tell orders apart).
Records == {"a", "b"}

\* Python's None, for a reference that names no list object.
None == 0

\* sinks.py:41 sets 10000; scaled so that a full buffer is reachable.
MAX_SIZE_DEFAULT == 3

VARIABLES
    \* ---- Sink (sinks.py) ----
    heap,                   \* the list objects: heap[id] is the list's contents
    records_to_drain,       \* self.records_to_drain: a reference into heap
    records_draining,       \* self._records_draining: a reference, or None
    num_records_since_drain,\* self._num_records_since_drain
    total_records_read,     \* self._total_records_read
    total_records_written,  \* self._total_records_written
    dupe_records_merged,    \* self._dupe_records_merged
    ret,                    \* the last Sink call: its name, argument, result
    \* ---- history of the Sink's calls (observers, not program state) ----
    loaded,                 \* every record load_record accepted, in order
    sinceStart,             \* those accepted since construction / start_drain
    batches,                \* the references start_drain returned, in order
    snaps,                  \* the contents each of them had when returned
    \* ---- TapBase (TapBase.py) ----
    tapPc,                  \* "new", "init_failed" or "constructed"
    tap_config,             \* self._config: the keys, in insertion order
    accepted_options,       \* self._accepted_options (only `in` is used on it)
    option_set_requirements,\* self._option_set_requirements
    conn_class,             \* self._conn_class
    conn,                   \* self._conn: unset, None or an instance
    tapRet,                 \* the last Tap call: its name and outcome
    \* ---- history of the Tap's calls ----
    connCalls,              \* the configurations the connection class got
    getCalls,               \* the outcome of every get_connection call
    \* ---- SampleTapSnowflakeConnection.query ----
    qPc,                    \* "idle", "loop", "returned" or "raised"
    qArg,                   \* the `query` argument: a statement or a list
    max_records,            \* the `max_records` argument
    queries,                \* the local list `queries`
    qIdx,                   \* the loop's position in `queries`
    result,                 \* the local `result`
    qOpen,                  \* the connection / cursor currently open
    qExit,                  \* how the call ended: returned value or exception
    \* ---- history of the current query call ----
    qLog,                   \* connect, cursor, execute, fetchall, close events
    qCounts,                \* cur.rowcount after each execute that returned
    \* ---- the Sink class and a second Sink instance ----
    sinkClass,              \* the class attributes of Sink (sinks.py:36-39)
    sinkB,                  \* the attributes another Sink instance has set
    \* ---- Sink record processing (sinks.py:128-176) ----
    record,                 \* the record dict, fields in insertion order
    schema,                 \* self.schema
    treatment,              \* what self.datetime_error_treatment returns
    validated               \* the last record call: name, argument, outcome

sinkVars == <<heap, records_to_drain, records_draining, num_records_since_drain,
              total_records_read, total_records_written, dupe_records_merged,
              ret, loaded, sinceStart, batches, snaps>>

tapVars == <<tapPc, tap_config, accepted_options, option_set_requirements,
             conn_class, conn, tapRet, connCalls, getCalls>>

queryVars == <<qPc, qArg, max_records, queries, qIdx, result, qOpen, qExit,
               qLog, qCounts>>

twoSinkVars == <<sinkClass, sinkB>>

recordVars == <<record, schema, treatment, validated>>

vars == <<sinkVars, tapVars, queryVars, twoSinkVars, recordVars>>

\* ------------------------------------------------------------------- Sink

\* The class attributes of Sink: the four tallies (sinks.py:36-39).
ClassDefaults ==
    [num_records_since_drain |-> 0, total_records_read |-> 0,
     total_records_written |-> 0, dupe_records_merged |-> 0]

\* No second Sink has been constructed.
NoSink == [records_to_drain |-> None, records_draining |-> None,
           attrs |-> <<>>]

OneSink ==
    /\ sinkClass = ClassDefaults
    /\ sinkB = NoSink

\* Python's attribute lookup for self.<name>: the instance's own attribute if
\* it has set one, else the class attribute.
InstanceAttr(sink, name) ==
    IF name \in DOMAIN sink.attrs THEN sink.attrs[name] ELSE sinkClass[name]

\* States a second Sink can be in, with the list objects it holds (their
\* references follow the first Sink's list): just constructed; after one
\* load_record and one tally_record_read; in the middle of a drain.
SecondSinks ==
    {[sink |-> [records_to_drain |-> 2, records_draining |-> None,
                attrs |-> [n \in {} |-> 0]],
      lists |-> << <<>> >>],
     [sink |-> [records_to_drain |-> 2, records_draining |-> None,
                attrs |-> [total_records_read |-> 1]],
      lists |-> << <<"b">> >>],
     [sink |-> [records_to_drain |-> 3, records_draining |-> 2,
                attrs |-> [total_records_read |-> 2,
                           total_records_written |-> 1]],
      lists |-> << <<"b">>, <<"a">> >>]}

\* Two Sink objects: __init__ (sinks.py:48-62) gives each its own new list,
\* and the tallies are class attributes (sinks.py:36-39) until an instance
\* assigns its own.
TwoSinksInit ==
    /\ \E b \in SecondSinks :
         /\ sinkB = b.sink
         /\ heap = << <<>> >> \o b.lists
    /\ sinkClass = ClassDefaults
    /\ records_to_drain = 1
    /\ records_draining = None
    /\ num_records_since_drain = 0
    /\ total_records_read = 0
    /\ total_records_written = 0
    /\ dupe_records_merged = 0
    /\ ret = [op |-> "__init__", arg |-> 0, val |-> None, exc |-> "none"]
    /\ loaded = <<>>
    /\ sinceStart = <<>>
    /\ batches = <<>>
    /\ snaps = <<>>

\* Sink.__init__ (sinks.py:48-62) with the class-level tallies (35-39).
SinkInit ==
    /\ heap = << <<>> >>
    /\ records_to_drain = 1
    /\ records_draining = None
    /\ num_records_since_drain = 0
    /\ total_records_read = 0
    /\ total_records_written = 0
    /\ dupe_records_merged = 0
    /\ ret = [op |-> "__init__", arg |-> 0, val |-> None, exc |-> "none"]
    /\ loaded = <<>>
    /\ sinceStart = <<>>
    /\ batches = <<>>
    /\ snaps = <<>>

\* Sink.max_size (sinks.py:70-73).
max_size == MAX_SIZE_DEFAULT

\* Sink.current_size (sinks.py:75-78).
current_size == Len(heap[records_to_drain])

\* A bug: a buffer holding exactly max_size records does not count as full.
is_full_strict == current_size > max_size

\* Sink.is_full (sinks.py:80-83).
is_full == current_size >= max_size

tallyUnchanged ==
    UNCHANGED <<num_records_since_drain, total_records_read,
                total_records_written, dupe_records_merged>>

historyUnchanged == UNCHANGED <<loaded, sinceStart, batches, snaps>>

\* A Sink call touches nothing outside the Sink.
sinkOnly == UNCHANGED <<tapVars, queryVars, twoSinkVars, recordVars>>

\* The tally arguments the model tries, and the cap that keeps totals finite.
TallyCounts == 0..MaxCount
TallyRoom(c) ==
    total_records_read + total_records_written + dupe_records_merged + c
        <= MaxTally

\* A bug: the tally is kept on the class, which every Sink reads.
TallyRecordReadOnClass ==
    \E c \in TallyCounts :
        /\ TallyRoom(c)
        /\ sinkClass' = [sinkClass EXCEPT !.total_records_read = @ + c]
        /\ total_records_read' = total_records_read + c
        /\ ret' = [op |-> "tally_record_read", arg |-> c, val |-> None,
                   exc |-> "none"]
        /\ UNCHANGED <<heap, records_to_drain, records_draining,
                       num_records_since_drain, total_records_written,
                       dupe_records_merged>>
        /\ historyUnchanged
        /\ UNCHANGED <<tapVars, queryVars, sinkB, recordVars>>

\* Sink.tally_record_read (sinks.py:87-93).
TallyRecordRead ==
    \E c \in TallyCounts :
        /\ TallyRoom(c)
        /\ total_records_read' = total_records_read + c
        /\ ret' = [op |-> "tally_record_read", arg |-> c, val |-> None,
                   exc |-> "none"]
        /\ UNCHANGED <<heap, records_to_drain, records_draining,
                       num_records_since_drain, total_records_written,
                       dupe_records_merged>>
        /\ historyUnchanged
        /\ sinkOnly

\* A bug: the written tally is added to the read total.
TallyRecordWrittenToReadTotal ==
    \E c \in TallyCounts :
        /\ TallyRoom(c)
        /\ total_records_read' = total_records_read + c
        /\ ret' = [op |-> "tally_record_written", arg |-> c, val |-> None,
                   exc |-> "none"]
        /\ UNCHANGED <<heap, records_to_drain, records_draining,
                       num_records_since_drain, total_records_written,
                       dupe_records_merged>>
        /\ historyUnchanged
        /\ sinkOnly

\* Sink.tally_record_written (sinks.py:95-101).
TallyRecordWritten ==
    \E c \in TallyCounts :
        /\ TallyRoom(c)
        /\ total_records_written' = total_records_written + c
        /\ ret' = [op |-> "tally_record_written", arg |-> c, val |-> None,
                   exc |-> "none"]
        /\ UNCHANGED <<heap, records_to_drain, records_draining,
                       num_records_since_drain, total_records_read,
                       dupe_records_merged>>
        /\ historyUnchanged
        /\ sinkOnly

\* Sink.tally_duplicate_merged (sinks.py:103-109).
TallyDuplicateMerged ==
    \E c \in TallyCounts :
        /\ TallyRoom(c)
        /\ dupe_records_merged' = dupe_records_merged + c
        /\ ret' = [op |-> "tally_duplicate_merged", arg |-> c, val |-> None,
                   exc |-> "none"]
        /\ UNCHANGED <<heap, records_to_drain, records_draining,
                       num_records_since_drain, total_records_read,
                       total_records_written>>
        /\ historyUnchanged
        /\ sinkOnly

\* A bug: the type check is missing.
IsListUnchecked(ref) == TRUE

\* isinstance(self.records_to_drain, list) (sinks.py:195): the base Sink only
\* ever stores a reference to a list object there, so under Spec the
\* ValueError branch of load_record is never taken.
IsList(ref) == ref \in 1..Len(heap)

\* A bug: a record offered while the Sink is full is accepted but not kept.
LoadRecordDropsWhenFull ==
    \E r \in Records :
        /\ Len(loaded) < MaxLoads
        /\ heap' = IF is_full THEN heap
                   ELSE [heap EXCEPT ![records_to_drain] = Append(@, r)]
        /\ ret' = [op |-> "load_record", arg |-> r, val |-> None,
                   exc |-> "none"]
        /\ loaded' = Append(loaded, r)
        /\ sinceStart' = Append(sinceStart, r)
        /\ UNCHANGED <<records_to_drain, records_draining, batches, snaps>>
        /\ tallyUnchanged
        /\ sinkOnly

\* Sink.load_record (sinks.py:184-201): the type check, then append in place
\* to the list object records_to_drain refers to.
LoadRecord ==
    \E r \in Records :
        /\ Len(loaded) < MaxLoads
        /\ IF ~IsList(records_to_drain)
           THEN /\ ret' = [op |-> "load_record", arg |-> r, val |-> None,
                           exc |-> "ValueError"]
                /\ UNCHANGED <<heap, loaded, sinceStart>>
           ELSE /\ heap' = [heap EXCEPT ![records_to_drain] = Append(@, r)]
                /\ ret' = [op |-> "load_record", arg |-> r, val |-> None,
                           exc |-> "none"]
                /\ loaded' = Append(loaded, r)
                /\ sinceStart' = Append(sinceStart, r)
        /\ UNCHANGED <<records_to_drain, records_draining, batches, snaps>>
        /\ tallyUnchanged
        /\ sinkOnly

\* A bug: the captured list is emptied in place and kept as the buffer,
\* so the batch and the buffer stay one object.
StartDrainSameList ==
    /\ Len(heap) < MaxLists
    /\ records_draining' = records_to_drain
    /\ heap' = [heap EXCEPT ![records_to_drain] = <<>>]
    /\ records_to_drain' = records_to_drain
    /\ ret' = [op |-> "start_drain", arg |-> 0, val |-> records_to_drain,
               exc |-> "none"]
    /\ batches' = Append(batches, records_to_drain)
    /\ snaps' = Append(snaps, heap[records_to_drain])
    /\ sinceStart' = <<>>
    /\ UNCHANGED loaded
    /\ tallyUnchanged
    /\ sinkOnly

\* A bug: the buffer is captured but not replaced by a fresh list.
StartDrainNoReset ==
    /\ Len(heap) < MaxLists
    /\ records_draining' = records_to_drain
    /\ heap' = Append(heap, <<>>)
    /\ records_to_drain' = records_to_drain
    /\ ret' = [op |-> "start_drain", arg |-> 0, val |-> records_to_drain,
               exc |-> "none"]
    /\ batches' = Append(batches, records_to_drain)
    /\ snaps' = Append(snaps, heap[records_to_drain])
    /\ sinceStart' = <<>>
    /\ UNCHANGED loaded
    /\ tallyUnchanged
    /\ sinkOnly

\* Sink.start_drain (sinks.py:203-207): _records_draining takes the buffer's
\* reference, records_to_drain a new empty list, and the captured reference
\* is returned (the caller and _records_draining share the list object).
StartDrain ==
    /\ Len(heap) < MaxLists
    /\ records_draining' = records_to_drain
    /\ heap' = Append(heap, <<>>)
    /\ records_to_drain' = Len(heap) + 1
    /\ ret' = [op |-> "start_drain", arg |-> 0, val |-> records_to_drain,
               exc |-> "none"]
    /\ batches' = Append(batches, records_to_drain)
    /\ snaps' = Append(snaps, heap[records_to_drain])
    /\ sinceStart' = <<>>
    /\ UNCHANGED loaded
    /\ tallyUnchanged
    /\ sinkOnly

\* A bug: the placeholder accepts every batch.
DrainOutcomeNever(batch) == "none"

\* `if records_to_drain: raise NotImplementedError` (sinks.py:218-221): a
\* list is truthy exactly when it is not empty.
DrainOutcome(batch) ==
    IF Len(batch) > 0 THEN "NotImplementedError" ELSE "none"

\* Sink.drain (sinks.py:209-221), called with any list the host holds: a
\* batch start_drain returned or the buffer itself.
Drain ==
    \E b \in 1..Len(heap) :
        /\ ret' = [op |-> "drain", arg |-> b, val |-> None,
                   exc |-> DrainOutcome(heap[b])]
        /\ UNCHANGED <<heap, records_to_drain, records_draining>>
        /\ tallyUnchanged
        /\ historyUnchanged
        /\ sinkOnly

\* A bug: what the docstring of mark_drained says, a reset of the buffer too.
MarkDrainedResetsBuffer ==
    /\ records_draining' = None
    /\ heap' = [heap EXCEPT ![records_to_drain] = <<>>]
    /\ ret' = [op |-> "mark_drained", arg |-> 0, val |-> None, exc |-> "none"]
    /\ UNCHANGED records_to_drain
    /\ tallyUnchanged
    /\ historyUnchanged
    /\ sinkOnly

\* A bug: the drain tracking is left as it is.
MarkDrainedKeepsDraining ==
    /\ ret' = [op |-> "mark_drained", arg |-> 0, val |-> None, exc |-> "none"]
    /\ UNCHANGED <<heap, records_to_drain, records_draining>>
    /\ tallyUnchanged
    /\ historyUnchanged
    /\ sinkOnly

\* Sink.mark_drained (sinks.py:223-225).
MarkDrained ==
    /\ records_draining' = None
    /\ ret' = [op |-> "mark_drained", arg |-> 0, val |-> None, exc |-> "none"]
    /\ UNCHANGED <<heap, records_to_drain>>
    /\ tallyUnchanged
    /\ historyUnchanged
    /\ sinkOnly

\* What a misbehaving override can leave in records_to_drain, which is typed
\* Union[List[dict], Any] (sinks.py:61): None, or an object that is no list.
NotAList == {None, None - 1}

\* A subclass override assigns something that is no list to
\* self.records_to_drain.
OverrideReplacesBuffer ==
    /\ \E x \in NotAList : records_to_drain' = x
    /\ ret' = [op |-> "override", arg |-> 0, val |-> None, exc |-> "none"]
    /\ UNCHANGED <<heap, records_draining>>
    /\ tallyUnchanged
    /\ historyUnchanged
    /\ sinkOnly

SinkNext ==
    \/ TallyRecordRead
    \/ TallyRecordWritten
    \/ TallyDuplicateMerged
    \/ LoadRecord
    \/ StartDrain
    \/ Drain
    \/ MarkDrained

\* -------------------------------------------------------------------- Tap

\* The option names of the plugin and the connection classes a host passes.
Options == {"user", "password", "token"}
ConnClasses == {"ConnA", "ConnB"}

RECURSIVE DistinctSeqs(_)
\* Every sequence of distinct elements of S: the key orders of a dict, and
\* the option sets a plugin declares.
DistinctSeqs(S) ==
    {<<>>} \cup UNION {{<<x>> \o t : t \in DistinctSeqs(S \ {x})} : x \in S}

Configs == DistinctSeqs(Options)
OptionSets == DistinctSeqs(Options)
Requirements == UNION {[1..n -> OptionSets] : n \in 0..MaxSets}

\* The requirement lists the constructor is tried with (the connection logic
\* does not read them).
SampleRequirements == {<<>>, << <<"user", "password">>, <<"token">> >>}

\* The values of self._conn: the attribute missing (the class body only
\* annotates it, TapBase.py:26), None, or a connection instance.
Unset == [kind |-> "unset", cls |-> "", cfg |-> <<>>, id |-> 0]
NoneConn == [kind |-> "None", cls |-> "", cfg |-> <<>>, id |-> 0]
Instance(cls, cfg, n) == [kind |-> "instance", cls |-> cls, cfg |-> cfg, id |-> n]

NoTapRet ==
    [op |-> "none", warnings |-> <<>>, errors |-> <<>>, exc |-> "none",
     val |-> Unset]

\* The object before TapBase.__init__ has run: no instance attribute is set.
TapNew ==
    /\ tapPc = "new"
    /\ tap_config = <<>>
    /\ accepted_options = {}
    /\ option_set_requirements = <<>>
    /\ conn_class = ""
    /\ conn = Unset
    /\ tapRet = NoTapRet
    /\ connCalls = <<>>
    /\ getCalls = <<>>

\* A Tap call touches nothing outside the Tap.
tapOnly == UNCHANGED <<sinkVars, queryVars, twoSinkVars, recordVars>>

Keys(cfg) == {cfg[i] : i \in 1..Len(cfg)}

\* A bug: accepted keys are the ones reported.
IsUnexpectedInverted(k, accepted) == k \in accepted

\* `k not in self._accepted_options` (TapBase.py:59).
IsUnexpected(k, accepted) == k \notin accepted

RECURSIVE WarningsOf(_, _)
\* The loop over the configuration's keys (TapBase.py:58-60).
WarningsOf(cfg, accepted) ==
    IF cfg = <<>> THEN <<>>
    ELSE (IF IsUnexpected(Head(cfg), accepted)
          THEN <<"Unexpected config option found: " \o Head(cfg) \o ".">>
          ELSE <<>>) \o WarningsOf(Tail(cfg), accepted)

\* A bug: any() where the code has all().
AnyPresent(required_set, cfg) ==
    \E i \in 1..Len(required_set) : required_set[i] \in Keys(cfg)

\* all([x in self._config.keys() for x in required_set]) (TapBase.py:66).
AllPresent(required_set, cfg) ==
    \A i \in 1..Len(required_set) : required_set[i] \in Keys(cfg)

RECURSIVE MissingOf(_, _)
\* [x for x in required_set if x not in self._config.keys()] (TapBase.py:70).
MissingOf(required_set, cfg) ==
    IF required_set = <<>> THEN <<>>
    ELSE (IF Head(required_set) \notin Keys(cfg)
          THEN <<Head(required_set)>> ELSE <<>>)
         \o MissingOf(Tail(required_set), cfg)

RECURSIVE ScanSets(_, _, _, _)
\* The loop over required_sets (TapBase.py:63-71): its two accumulators.
ScanSets(required_sets, cfg, matched_any, missing) ==
    IF required_sets = <<>>
    THEN [matched_any |-> matched_any, missing |-> missing]
    ELSE IF AllPresent(Head(required_sets), cfg)
         THEN ScanSets(Tail(required_sets), cfg, TRUE, missing)
         ELSE ScanSets(Tail(required_sets), cfg, matched_any,
                       Append(missing, MissingOf(Head(required_sets), cfg)))

RECURSIVE PyJoin(_)
PyJoin(items) ==
    IF items = <<>> THEN ""
    ELSE IF Len(items) = 1 THEN Head(items)
    ELSE Head(items) \o ", " \o PyJoin(Tail(items))

\* Python's str() of a list of strings and of a list of such lists, as the
\* f-string at TapBase.py:76 formats `missing`.
PyStrList(l) == "[" \o PyJoin([i \in 1..Len(l) |-> "'" \o l[i] \o "'"]) \o "]"
PyStrListList(ll) == "[" \o PyJoin([i \in 1..Len(ll) |-> PyStrList(ll[i])]) \o "]"

MissingPrefix ==
    "One or more required config options are missing. "
    \o "Please complete one or more of the following sets: "

\* The option-set part of validate_config (TapBase.py:61-77).
ErrorsOf(cfg, required_sets) ==
    IF required_sets = <<>> THEN <<>>
    ELSE LET scan == ScanSets(required_sets, cfg, FALSE, <<>>)
         IN  IF ~scan.matched_any
             THEN <<MissingPrefix \o PyStrListList(scan.missing)>>
             ELSE <<>>

\* TapBase.validate_config (TapBase.py:54-78): reads three attributes,
\* returns (warnings, errors), changes nothing.
ValidateConfig ==
    /\ tapRet' = [op |-> "validate_config",
                  warnings |-> WarningsOf(tap_config, accepted_options),
                  errors |-> ErrorsOf(tap_config, option_set_requirements),
                  exc |-> "none", val |-> Unset]
    /\ UNCHANGED <<tapPc, tap_config, accepted_options,
                   option_set_requirements, conn_class, conn, connCalls,
                   getCalls>>
    /\ tapOnly

\* `not self._conn` (TapBase.py:100): None is falsy, a connection instance
\* is truthy (object's default).
Falsy(c) == c.kind = "None"

\* TapBase.get_connection (TapBase.py:98-102) as a function of the object's
\* attributes: reading self._conn when nothing has assigned it raises
\* AttributeError; otherwise a falsy _conn is replaced by
\* self._conn_class(self._config) and _conn is returned.
GetConnection(c, cls, cfg, n) ==
    IF c.kind = "unset"
    THEN [exc |-> "AttributeError", conn |-> c, val |-> Unset, made |-> <<>>]
    ELSE IF Falsy(c)
    THEN [exc |-> "none", conn |-> Instance(cls, cfg, n),
          val |-> Instance(cls, cfg, n), made |-> <<cfg>>]
    ELSE [exc |-> "none", conn |-> c, val |-> c, made |-> <<>>]

\* TapBase.__init__ (TapBase.py:31-50): the seven assignments, then
\* self._conn = self.get_connection(); an exception leaves _conn unassigned.
TapConstruct ==
    /\ tapPc = "new"
    /\ \E cfg \in Configs, cls \in ConnClasses,
          acc \in SUBSET Options, reqs \in SampleRequirements :
          LET g == GetConnection(conn, cls, cfg, Len(connCalls) + 1)
          IN  /\ tap_config' = cfg
              /\ accepted_options' = acc
              /\ option_set_requirements' = reqs
              /\ conn_class' = cls
              /\ connCalls' = connCalls \o g.made
              /\ getCalls' = Append(getCalls, [exc |-> g.exc, val |-> g.val])
              /\ conn' = IF g.exc = "none" THEN g.val ELSE conn
              /\ tapPc' = IF g.exc = "none" THEN "constructed"
                          ELSE "init_failed"
              /\ tapRet' = [op |-> "__init__", warnings |-> <<>>,
                            errors |-> <<>>, exc |-> g.exc, val |-> Unset]
    /\ tapOnly

\* A later get_connection() call on the same object.
TapGetConnection ==
    /\ tapPc # "new"
    /\ Len(getCalls) <= MaxGetCalls
    /\ LET g == GetConnection(conn, conn_class, tap_config, Len(connCalls) + 1)
       IN  /\ conn' = g.conn
           /\ connCalls' = connCalls \o g.made
           /\ getCalls' = Append(getCalls, [exc |-> g.exc, val |-> g.val])
           /\ tapRet' = [op |-> "get_connection", warnings |-> <<>>,
                         errors |-> <<>>, exc |-> g.exc, val |-> g.val]
    /\ UNCHANGED <<tapPc, tap_config, accepted_options,
                   option_set_requirements, conn_class>>
    /\ tapOnly

TapNext ==
    \/ TapConstruct
    \/ TapGetConnection

\* validate_config as a function of the three attributes it reads: the
\* objects TapBase.__init__ leaves behind (lines 43-49 done, line 50 raised),
\* for every accepted_options, option_set_requirements and config.
ValidateInit ==
    /\ tapPc = "init_failed"
    /\ tap_config \in Configs
    /\ accepted_options \in SUBSET Options
    /\ option_set_requirements \in Requirements
    /\ conn_class = "ConnA"
    /\ conn = Unset
    /\ tapRet = [op |-> "__init__", warnings |-> <<>>, errors |-> <<>>,
                 exc |-> "AttributeError", val |-> Unset]
    /\ connCalls = <<>>
    /\ getCalls = <<[exc |-> "AttributeError", val |-> Unset]>>

\* ------------------------------------------------------------------ query

\* The SQL statements a caller passes, and the `query` argument: one
\* statement, or a list of up to MaxStmts statements.
Stmts == {"s1", "s2"}
StmtLists == UNION {[1..n -> Stmts] : n \in 0..MaxStmts}
QueryArgs ==
    {[isList |-> FALSE, stmts |-> <<x>>] : x \in Stmts}
        \cup {[isList |-> TRUE, stmts |-> l] : l \in StmtLists}

\* The max_records values tried (0 is the default) and the row counts the
\* cursor may report after an execute.
Limits == (0 - 1)..MaxLimit
RowCounts == 0..MaxRowCount

Event(e, k, sql) == [ev |-> e, k |-> k, sql |-> sql]

NoExit == [kind |-> "none", exc |-> "none", at |-> "none", val |-> <<>>]

\* No query call has been made.
QueryIdle ==
    /\ qPc = "idle"
    /\ qArg = [isList |-> FALSE, stmts |-> <<>>]
    /\ max_records = 0
    /\ queries = <<>>
    /\ qIdx = 0
    /\ result = <<>>
    /\ qOpen = {}
    /\ qExit = NoExit
    /\ qLog = <<>>
    /\ qCounts = <<>>

\* A query call touches nothing outside the call.
queryOnly == UNCHANGED <<sinkVars, tapVars, twoSinkVars, recordVars>>

\* A bug: the statements of a list run without the transaction statement.
BuildQueriesNoTransaction(q) == q.stmts

\* The `queries` list (SampleTapSnowfakeConnection.py:21-27).
BuildQueries(q) ==
    IF q.isList THEN <<"START TRANSACTION">> \o q.stmts ELSE q.stmts

\* A bug: fetchone() where the code has fetchall().
FetchallFirstRowOnly(k, rowcount) == <<<<k, 1>>>>

\* cur.fetchall() after the k-th execute: that statement's rows.
Fetchall(k, rowcount) == [i \in 1..rowcount |-> <<k, i>>]

\* `max_records and cur.rowcount > max_records`
\* (SampleTapSnowfakeConnection.py:31).
GuardFires(limit, rowcount) == limit # 0 /\ rowcount > limit

\* The exception `raise TooManyRecordsException(...)` produces (lines
\* 33-36): the module neither imports nor defines that name (lines 3-10),
\* so evaluating it raises NameError.
GuardException == "NameError"

\* A bug: the connection is not scoped by a `with` and stays open.
CloseCursorOnly == <<Event("close_cursor", 0, "")>>

\* Leaving the two `with` blocks (lines 19-20): the cursor is closed, then
\* the connection.
CloseEvents == <<Event("close_cursor", 0, ""), Event("close_connection", 0, "")>>

\* query() up to the loop (SampleTapSnowfakeConnection.py:16-27): result,
\* the scoped connection and cursor, the `queries` list.
QueryCall ==
    /\ qPc \in {"idle", "returned", "raised"}
    /\ \E q \in QueryArgs, m \in Limits :
          /\ qArg' = q
          /\ max_records' = m
          /\ queries' = BuildQueries(q)
    /\ result' = <<>>
    /\ qOpen' = {"connection", "cursor"}
    /\ qLog' = <<Event("connect", 0, ""), Event("cursor", 0, "")>>
    /\ qCounts' = <<>>
    /\ qIdx' = 1
    /\ qExit' = NoExit
    /\ qPc' = "loop"
    /\ queryOnly

\* One iteration of `for sql in queries` whose execute returns (lines
\* 28-38): the guard, then the fetch when the statement has rows.
QueryStatement ==
    /\ qPc = "loop"
    /\ qIdx <= Len(queries)
    /\ \E rowcount \in RowCounts :
          LET exec == Event("execute", qIdx, queries[qIdx])
          IN  /\ qCounts' = Append(qCounts, rowcount)
              /\ IF GuardFires(max_records, rowcount)
                 THEN /\ qLog' = (qLog \o <<exec>>) \o CloseEvents
                      /\ qOpen' = {}
                      /\ qExit' = [kind |-> "raise", exc |-> GuardException,
                                   at |-> "guard", val |-> <<>>]
                      /\ qPc' = "raised"
                      /\ UNCHANGED <<result, qIdx>>
                 ELSE /\ IF rowcount > 0
                         THEN /\ result' = Fetchall(qIdx, rowcount)
                              /\ qLog' = qLog \o <<exec,
                                    Event("fetchall", qIdx, queries[qIdx])>>
                         ELSE /\ qLog' = Append(qLog, exec)
                              /\ UNCHANGED result
                      /\ qIdx' = qIdx + 1
                      /\ UNCHANGED <<qOpen, qExit, qPc>>
    /\ UNCHANGED <<qArg, max_records, queries>>
    /\ queryOnly

\* An iteration whose cur.execute(sql, params) raises (line 30): the
\* client library's error leaves the loop and both `with` blocks.
QueryStatementFails ==
    /\ qPc = "loop"
    /\ qIdx <= Len(queries)
    /\ qLog' = (qLog \o <<Event("execute", qIdx, queries[qIdx])>>)
                  \o CloseEvents
    /\ qOpen' = {}
    /\ qExit' = [kind |-> "raise", exc |-> "StatementError",
                 at |-> "execute", val |-> <<>>]
    /\ qPc' = "raised"
    /\ UNCHANGED <<qArg, max_records, queries, qIdx, result, qCounts>>
    /\ queryOnly

\* The loop is over: both `with` blocks exit and result is returned
\* (line 39).
QueryReturn ==
    /\ qPc = "loop"
    /\ qIdx > Len(queries)
    /\ qLog' = qLog \o CloseEvents
    /\ qOpen' = {}
    /\ qExit' = [kind |-> "return", exc |-> "none", at |-> "none",
                 val |-> result]
    /\ qPc' = "returned"
    /\ UNCHANGED <<qArg, max_records, queries, qIdx, result, qCounts>>
    /\ queryOnly

QueryNext ==
    \/ QueryCall
    \/ QueryStatement
    \/ QueryStatementFails
    \/ QueryReturn

\* ------------------------------------------------------ record processing

\* Values a field can hold: a str, None, or a datetime the parser built.
Str(s) == <<"str", s>>
PyNone == <<"NoneType">>
Datetime(s) == <<"datetime", s>>

\* Text the date parser accepts and text it rejects; NowIso is what
\* datetime.datetime.now().isoformat() gives (sinks.py:139).
NowIso == "2024-03-02T00:00:00"
GoodStrings == {"2024-03-01T10:00:00Z", NowIso}
BadString == "not-a-date"
RawValues == {Str("2024-03-01T10:00:00Z"), Str(BadString), PyNone}

\* Field names of incoming records, and the three metadata columns.
DataNames == {"ts", "id"}
MetadataNames == {"_sdc_extracted_at", "_sdc_batched_at", "_sdc_deleted_at"}
FieldNames == DataNames \cup {"_sdc_deleted_at"}

\* A dict is the sequence of its items in insertion order.
DictKeys(d) == {d[i].k : i \in 1..Len(d)}

\* d.get(key): the value, or None.
DictGet(d, key) ==
    IF key \in DictKeys(d)
    THEN d[CHOOSE i \in 1..Len(d) : d[i].k = key].v
    ELSE PyNone

\* d[key] = value: an existing key keeps its place, a new one goes last.
DictSet(d, key, value) ==
    IF key \in DictKeys(d)
    THEN [i \in 1..Len(d) |-> IF d[i].k = key
                              THEN [k |-> key, v |-> value] ELSE d[i]]
    ELSE Append(d, [k |-> key, v |-> value])

\* The records a host passes in: up to MaxFields distinct fields.
InputRecords ==
    {d \in UNION {[1..n -> [k : FieldNames, v : RawValues]] : n \in 0..MaxFields} :
        \A i, j \in 1..Len(d) : i # j => d[i].k # d[j].k}

\* The record messages metadata is stamped from: with or without
\* time_extracted.
Messages ==
    {<<>>, <<[k |-> "time_extracted", v |-> Str("2024-03-01T10:00:00Z")]>>}

\* Type descriptors of schema["properties"]: a date-time string, a plain one.
DateTimeDescriptor == [type |-> "string", format |-> "date-time"]
PlainDescriptor == [type |-> "string"]
Descriptors == {DateTimeDescriptor, PlainDescriptor}

\* The schemas tried: any descriptors for any of the data fields, with the
\* metadata columns either all declared as date-time or not declared.
Schemas ==
    {[properties |->
        [f \in F \cup M |-> IF f \in F THEN d[f] ELSE DateTimeDescriptor]] :
        <<F, d, M>> \in
            {<<F2, d2, M2>> \in
                 (SUBSET DataNames)
                 \X (UNION {[F3 -> Descriptors] : F3 \in SUBSET DataNames})
                 \X {{}, MetadataNames} :
                 DOMAIN d2 = F2}}

\* DatetimeErrorTreatmentEnum (imported at sinks.py:19).
Treatments == {"ERROR", "MAX", "NULL"}

\* No record call has been made yet.
NoCall == [op |-> "new", arg |-> <<>>, val |-> <<>>, exc |-> "none"]

\* The Sink's record processing with its inputs: the record a host holds,
\* the schema given to __init__ (sinks.py:58) and the treatment the
\* (possibly overridden) datetime_error_treatment returns (sinks.py:128-131).
RecordInit ==
    /\ record \in InputRecords
    /\ schema \in Schemas
    /\ treatment \in Treatments
    /\ validated = NoCall

\* The other specifications process no record.
RecordIdle ==
    /\ record = <<>>
    /\ schema = [properties |-> <<>>]
    /\ treatment = "ERROR"
    /\ validated = NoCall

recordOnly == UNCHANGED <<sinkVars, tapVars, queryVars, twoSinkVars>>

\* Sink._add_metadata_values_to_record (sinks.py:135-140).
AddMetadataValuesToRecord ==
    /\ validated.op = "new"
    /\ \E message \in Messages :
         record' =
             LET r1 == DictSet(record, "_sdc_extracted_at",
                               DictGet(message, "time_extracted"))
                 r2 == DictSet(r1, "_sdc_batched_at", Str(NowIso))
             IN  DictSet(r2, "_sdc_deleted_at",
                         DictGet(r2, "_sdc_deleted_at"))
    /\ validated' = [op |-> "_add_metadata_values_to_record", arg |-> record,
                     val |-> <<>>, exc |-> "none"]
    /\ UNCHANGED <<schema, treatment>>
    /\ recordOnly

\* get_datelike_property_type(key, descriptor): the date-like kind, or a
\* falsy value.
DatelikeFormats == {"date-time", "time", "date"}
NoKind == ""
GetDatelikePropertyType(key, descriptor) ==
    IF "format" \in DOMAIN descriptor /\ descriptor.format \in DatelikeFormats
    THEN descriptor.format
    ELSE NoKind

\* dateutil's parser.parse(value): a datetime for text it accepts; it raises
\* for other text and for what is no text at all.
Parses(value) == value[1] = "str" /\ value[2] \in GoodStrings
Parse(value) == Datetime(value[2])
ParseError(value) == IF value[1] = "str" THEN "ParserError" ELSE "TypeError"

\* handle_invalid_timestamp_in_record(record, [key], raw value, kind, error,
\* treatment, logger): ERROR propagates the failure, MAX gives the largest
\* value of the kind, NULL gives None.
MaxValue(kind) == <<"max", kind>>
HandleInvalidTimestampInRecord(raw, kind, ex, treat) ==
    CASE treat = "ERROR" -> [val |-> raw, exc |-> ex]
      [] treat = "MAX" -> [val |-> MaxValue(kind), exc |-> "none"]
      [] treat = "NULL" -> [val |-> PyNone, exc |-> "none"]

\* A bug: a value that parses is left as the text it was.
ValidateFieldKeepsRaw(rec, i, properties, treat) ==
    LET key == rec[i].k
        date_val == rec[i].v
    IN  IF key \notin DOMAIN properties
        THEN [rec |-> rec, exc |-> "KeyError"]
        ELSE LET datelike_type ==
                     GetDatelikePropertyType(key, properties[key])
             IN  IF datelike_type = NoKind
                 THEN [rec |-> rec, exc |-> "none"]
                 ELSE IF Parses(date_val)
                      THEN [rec |-> rec, exc |-> "none"]
                      ELSE LET h == HandleInvalidTimestampInRecord(
                                        date_val, datelike_type,
                                        ParseError(date_val), treat)
                           IN  IF h.exc # "none"
                               THEN [rec |-> rec, exc |-> h.exc]
                               ELSE [rec |-> DictSet(rec, key, h.val),
                                     exc |-> "none"]

\* A bug: a field the schema does not declare is passed over.
ValidateFieldSkipsUndeclared(rec, i, properties, treat) ==
    LET key == rec[i].k
        date_val == rec[i].v
    IN  IF key \notin DOMAIN properties
        THEN [rec |-> rec, exc |-> "none"]
        ELSE LET datelike_type ==
                     GetDatelikePropertyType(key, properties[key])
             IN  IF datelike_type = NoKind
                 THEN [rec |-> rec, exc |-> "none"]
                 ELSE IF Parses(date_val)
                      THEN [rec |-> DictSet(rec, key, Parse(date_val)),
                            exc |-> "none"]
                      ELSE LET h == HandleInvalidTimestampInRecord(
                                        date_val, datelike_type,
                                        ParseError(date_val), treat)
                           IN  IF h.exc # "none"
                               THEN [rec |-> rec, exc |-> h.exc]
                               ELSE [rec |-> DictSet(rec, key, h.val),
                                     exc |-> "none"]

\* One pass of the loop body (sinks.py:161-176) for the i-th key: the
\* record after it and the exception that left the loop, if any. The
\* subscript schema["properties"][key] raises KeyError for a key that is not
\* declared; record[key] is assigned after the try statement, on both paths.
ValidateField(rec, i, properties, treat) ==
    LET key == rec[i].k
        date_val == rec[i].v
    IN  IF key \notin DOMAIN properties
        THEN [rec |-> rec, exc |-> "KeyError"]
        ELSE LET datelike_type ==
                     GetDatelikePropertyType(key, properties[key])
             IN  IF datelike_type = NoKind
                 THEN [rec |-> rec, exc |-> "none"]
                 ELSE IF Parses(date_val)
                      THEN [rec |-> DictSet(rec, key, Parse(date_val)),
                            exc |-> "none"]
                      ELSE LET h == HandleInvalidTimestampInRecord(
                                        date_val, datelike_type,
                                        ParseError(date_val), treat)
                           IN  IF h.exc # "none"
                               THEN [rec |-> rec, exc |-> h.exc]
                               ELSE [rec |-> DictSet(rec, key, h.val),
                                     exc |-> "none"]

\* Sink._validate_timestamps_in_record (sinks.py:151-176): the loop over
\* record.keys(), from the i-th key on.
RECURSIVE ValidateTimestampsFrom(_, _, _, _)
ValidateTimestampsFrom(rec, i, properties, treat) ==
    IF i > Len(rec)
    THEN [rec |-> rec, exc |-> "none"]
    ELSE LET step == ValidateField(rec, i, properties, treat)
         IN  IF step.exc # "none"
             THEN step
             ELSE ValidateTimestampsFrom(step.rec, i + 1, properties, treat)

ValidateTimestampsInRecord(rec, sch, treat) ==
    ValidateTimestampsFrom(rec, 1, sch.properties, treat)

\* Sink._validate_record (sinks.py:144-149): the record is repaired in
\* place and returned, unless the repair raised.
ValidateRecord ==
    /\ validated.op # "_validate_record"
    /\ LET out == ValidateTimestampsInRecord(record, schema, treatment)
       IN  /\ record' = out.rec
           /\ validated' = [op |-> "_validate_record", arg |-> record,
                            val |-> IF out.exc = "none" THEN out.rec ELSE <<>>,
                            exc |-> out.exc]
    /\ UNCHANGED <<schema, treatment>>
    /\ recordOnly

RecordNext ==
    \/ AddMetadataValuesToRecord
    \/ ValidateRecord

\* ------------------------------------------------------------ Sink claims

\* C1: a start_drain step returns exactly the records load_record accepted
\* since construction or the previous start_drain, in load order, and
\* current_size is 0 right after it.
C1_StartDrainReturnsLoadedFifo ==
    [][Len(batches') > Len(batches) =>
          /\ ret'.op = "start_drain"
          /\ ret'.val = batches'[Len(batches')]
          /\ heap'[ret'.val] = sinceStart
          /\ current_size' = 0]_vars

\* C1 witness: the second start_drain has just returned [a, b].
C1_Witness ==
    /\ ret.op = "start_drain"
    /\ Len(batches) = 2
    /\ heap[ret.val] = <<"a", "b">>
    /\ current_size = 0

\* C2: every batch start_drain returned still holds what it held when it was
\* returned, records_draining (while set) is the last returned batch with
\* those contents, and the records loaded since are in the buffer, which is
\* none of the returned lists.
C2_ReturnedBatchNeverChanges ==
    /\ \A i \in 1..Len(batches) :
          /\ heap[batches[i]] = snaps[i]
          /\ batches[i] # records_to_drain
    /\ records_draining # None =>
          /\ Len(batches) > 0
          /\ records_draining = batches[Len(batches)]
          /\ heap[records_draining] = snaps[Len(snaps)]
    /\ heap[records_to_drain] = sinceStart

\* C2 witness: two records were loaded while the batch [a] is being drained.
C2_Witness ==
    /\ ret.op = "load_record"
    /\ records_draining # None
    /\ heap[records_draining] = <<"a">>
    /\ sinceStart = <<"b", "b">>

\* C3: current_size is the number of records loaded since the last
\* start_drain, is_full holds exactly from max_size records on, a fresh Sink
\* is empty and not full, and max_size loads in a row make it full.
C3_SizeAndFull ==
    /\ current_size = Len(sinceStart)
    /\ is_full <=> (Len(sinceStart) >= MAX_SIZE_DEFAULT)
    /\ ret.op = "__init__" => (current_size = 0 /\ ~is_full)
    /\ Len(sinceStart) = MAX_SIZE_DEFAULT =>
          (is_full /\ current_size = MAX_SIZE_DEFAULT)

\* C3 witness: max_size records were loaded in a row and the Sink is full.
C3_Witness ==
    /\ ret.op = "load_record"
    /\ Len(sinceStart) = MAX_SIZE_DEFAULT
    /\ is_full
    /\ current_size = MAX_SIZE_DEFAULT

\* C4: the base drain returns normally exactly for an empty batch and raises
\* NotImplementedError exactly for a non-empty one, in every Sink state.
C4_DrainRaisesIffNonEmpty ==
    ret.op = "drain" =>
        /\ heap[ret.arg] = <<>> => ret.exc = "none"
        /\ heap[ret.arg] # <<>> => ret.exc = "NotImplementedError"

\* C4 witness: drain was called with the two-record batch being drained.
C4_Witness ==
    /\ ret.op = "drain"
    /\ ret.arg = records_draining
    /\ Len(heap[ret.arg]) = 2
    /\ ret.exc = "NotImplementedError"

\* C12: no Sink call decreases a counter; each tally call adds its count to
\* its own total and changes no other counter and no buffer; load_record,
\* start_drain, drain and mark_drained leave the three totals as they are.
C12_CountersOnlyGrowByTallies ==
    [][/\ num_records_since_drain' >= num_records_since_drain
       /\ total_records_read' >= total_records_read
       /\ total_records_written' >= total_records_written
       /\ dupe_records_merged' >= dupe_records_merged
       /\ ret'.op = "tally_record_read" =>
             /\ total_records_read' = total_records_read + ret'.arg
             /\ UNCHANGED <<total_records_written, dupe_records_merged,
                            num_records_since_drain>>
       /\ ret'.op = "tally_record_written" =>
             /\ total_records_written' = total_records_written + ret'.arg
             /\ UNCHANGED <<total_records_read, dupe_records_merged,
                            num_records_since_drain>>
       /\ ret'.op = "tally_duplicate_merged" =>
             /\ dupe_records_merged' = dupe_records_merged + ret'.arg
             /\ UNCHANGED <<total_records_read, total_records_written,
                            num_records_since_drain>>
       /\ ret'.op \in {"tally_record_read", "tally_record_written",
                       "tally_duplicate_merged"} =>
             UNCHANGED <<heap, records_to_drain, records_draining>>
       /\ ret'.op \in {"load_record", "start_drain", "drain",
                       "mark_drained"} =>
             UNCHANGED <<total_records_read, total_records_written,
                         dupe_records_merged>>]_vars

\* C12 witness: totals tallied before a drain cycle are still there after
\* start_drain and mark_drained.
C12_Witness ==
    /\ ret.op = "mark_drained"
    /\ Len(batches) = 1
    /\ total_records_read = 1
    /\ total_records_written = 1

RECURSIVE Concat(_)
\* The lists of a sequence of lists, one after the other.
Concat(ll) == IF ll = <<>> THEN <<>> ELSE Head(ll) \o Concat(Tail(ll))

C13_LoadRecordChecksBufferType ==
    [][ret'.op = "load_record" =>
          /\ UNCHANGED <<records_to_drain, records_draining,
                         num_records_since_drain, total_records_read,
                         total_records_written, dupe_records_merged>>
          /\ IF records_to_drain \in 1..Len(heap)
             THEN /\ ret'.exc = "none"
                  /\ heap' = [heap EXCEPT ![records_to_drain] =
                                              Append(@, ret'.arg)]
             ELSE /\ ret'.exc = "ValueError"
                  /\ heap' = heap]_vars

\* C13 witness: load_record failed on a replaced buffer, in the middle of a
\* drain and with a tally already counted.
C13_Witness ==
    /\ ret.op = "load_record"
    /\ ret.exc = "ValueError"
    /\ records_to_drain \notin 1..Len(heap)
    /\ records_draining # None
    /\ total_records_read = 1

\* What the claims about _validate_record say of one call: the fields the
\* schema declares, the date-like ones, those whose value does not parse.
Declared(f) == f.k \in DOMAIN schema.properties
IsDatelike(f) ==
    /\ "format" \in DOMAIN schema.properties[f.k]
    /\ schema.properties[f.k].format \in DatelikeFormats
IsParseable(f) == f.v[1] = "str" /\ f.v[2] \in GoodStrings
NeedsRepair(f) == IsDatelike(f) /\ ~IsParseable(f)

\* C15: when every field of the record has a descriptor, _validate_record
\* fails exactly when the treatment is ERROR and some date-like field does
\* not parse; otherwise it returns the record with the same keys in the same
\* order, a field that is not date-like unchanged, a date-like field that
\* parses holding the parsed datetime, and a date-like field that does not
\* parse holding what the repair routine returns for the unparsed value and
\* the treatment, which is None under NULL.
C15_FieldsTreatedByDescriptor ==
    (validated.op = "_validate_record"
       /\ \A i \in 1..Len(validated.arg) : Declared(validated.arg[i]))
    => LET given == validated.arg
           bad == \E i \in 1..Len(given) : NeedsRepair(given[i])
       IN  /\ (validated.exc # "none") <=> (treatment = "ERROR" /\ bad)
           /\ validated.exc = "none" =>
                /\ validated.val = record
                /\ Len(record) = Len(given)
                /\ \A i \in 1..Len(given) :
                     /\ record[i].k = given[i].k
                     /\ ~IsDatelike(given[i]) => record[i].v = given[i].v
                     /\ (IsDatelike(given[i]) /\ IsParseable(given[i]))
                          => record[i].v = <<"datetime", given[i].v[2]>>
                     /\ NeedsRepair(given[i])
                          => /\ record[i].v =
                                  HandleInvalidTimestampInRecord(
                                      given[i].v,
                                      schema.properties[given[i].k].format,
                                      "none", treatment).val
                             /\ treatment = "NULL" => record[i].v = PyNone

\* C15 witness: under NULL a record with an unparseable date-time field and
\* a parseable one was returned, the first as None, the second as a datetime.
C15_Witness ==
    /\ validated.op = "_validate_record"
    /\ validated.exc = "none"
    /\ treatment = "NULL"
    /\ validated.arg = <<[k |-> "ts", v |-> Str(BadString)],
                         [k |-> "id", v |-> Str("2024-03-01T10:00:00Z")]>>
    /\ \A i \in 1..2 : IsDatelike(validated.arg[i])
    /\ record = <<[k |-> "ts", v |-> PyNone],
                  [k |-> "id", v |-> Datetime("2024-03-01T10:00:00Z")]>>

\* The first field of the given record that the schema does not declare.
FirstUndeclared(given) ==
    CHOOSE i \in 1..Len(given) :
        /\ ~Declared(given[i])
        /\ \A j \in 1..(i - 1) : Declared(given[j])

\* C18 as stated: a record with a field that is not a key of
\* schema["properties"] makes _validate_record fail with the lookup error.
C18_UndeclaredFieldRaisesKeyError ==
    (validated.op = "_validate_record"
       /\ \E i \in 1..Len(validated.arg) : ~Declared(validated.arg[i]))
    => validated.exc = "KeyError"

\* C18: a record with a field that is not a key of schema["properties"] is
\* never returned by _validate_record; the call fails with the lookup error
\* at the first such field, unless the treatment is ERROR and a date-like
\* field before it does not parse, in which case that failure ends the call;
\* the fields from the first undeclared one on are left as they were.
C18_UndeclaredFieldNeverReturned ==
    (validated.op = "_validate_record"
       /\ \E i \in 1..Len(validated.arg) : ~Declared(validated.arg[i]))
    => LET given == validated.arg
           first == FirstUndeclared(given)
           earlier == \E j \in 1..(first - 1) : NeedsRepair(given[j])
       IN  /\ validated.exc # "none"
           /\ (validated.exc = "KeyError")
                <=> ~(treatment = "ERROR" /\ earlier)
           /\ Len(record) = Len(given)
           /\ \A i \in first..Len(given) : record[i] = given[i]

\* C18 witness: the metadata columns were stamped on a record whose schema
\* declares only its data field, and validation failed with the lookup
\* error after the declared date-time field had been parsed.
C18_Witness ==
    /\ validated.op = "_validate_record"
    /\ validated.exc = "KeyError"
    /\ DOMAIN schema.properties = {"ts"}
    /\ Len(record) = 4
    /\ record[1] = [k |-> "ts", v |-> Datetime("2024-03-01T10:00:00Z")]
    /\ {record[i].k : i \in 2..4} = MetadataNames
    /\ validated.arg[1].v = Str("2024-03-01T10:00:00Z")

\* What the second Sink shows of itself: its two references, the contents of
\* the lists they name, current_size and the four counters.
BView ==
    [records_to_drain |-> sinkB.records_to_drain,
     buffer |-> heap[sinkB.records_to_drain],
     records_draining |-> sinkB.records_draining,
     draining |-> IF sinkB.records_draining = None
                  THEN <<>> ELSE heap[sinkB.records_draining],
     current_size |-> Len(heap[sinkB.records_to_drain]),
     counters |-> [n \in DOMAIN ClassDefaults |-> InstanceAttr(sinkB, n)]]

\* C16: no load_record, start_drain, mark_drained or tally call on one Sink
\* changes another Sink's records_to_drain, records_draining, current_size
\* or counters.
C16_OtherSinkUntouched == [][BView' = BView]_vars

\* C16 witness: the first Sink has loaded, tallied, started and finished a
\* drain while the second one holds a record of its own.
C16_Witness ==
    /\ ret.op = "mark_drained"
    /\ batches # <<>>
    /\ loaded # <<>>
    /\ total_records_read > 0
    /\ sinkB.attrs = [total_records_read |-> 1]
    /\ heap[sinkB.records_to_drain] = <<"b">>

\* ------------------------------------------------------------- Tap claims

\* C5: over all get_connection calls on one Tap, the constructor's included,
\* the connection class is invoked at most once, with the Tap's
\* configuration, and every call returns that one connection instance.
C5_OneConnectionReturnedByEveryCall ==
    /\ Len(connCalls) <= 1
    /\ \A i \in 1..Len(connCalls) : connCalls[i] = tap_config
    /\ \A i \in 1..Len(getCalls) :
          /\ getCalls[i].exc = "none"
          /\ getCalls[i].val.kind = "instance"
          /\ getCalls[i].val = getCalls[1].val

\* C6: once the constructor has run it has completed, and the Tap holds the
\* connection its get_connection() call created.
C6_ConstructorAcquiresConnection ==
    tapPc # "new" =>
        /\ tapPc = "constructed"
        /\ conn.kind = "instance"
        /\ Len(connCalls) = 1
        /\ getCalls[1] = [exc |-> "none", val |-> conn]

\* C7: validate_config returns no error exactly when no option set is
\* declared or some declared set is fully among the configuration's keys;
\* otherwise it returns one error, listing for every declared set, in
\* declaration order, the options of the set the configuration lacks.
C7_ErrorsIffNoSetSatisfied ==
    tapRet.op = "validate_config" =>
        LET reqs == option_set_requirements
            keys == {tap_config[i] : i \in 1..Len(tap_config)}
            Satisfied(i) == {reqs[i][j] : j \in 1..Len(reqs[i])} \subseteq keys
            Lacking(x) == x \notin keys
            expected == [i \in 1..Len(reqs) |-> SelectSeq(reqs[i], Lacking)]
        IN  /\ tapRet.errors = <<>> <=>
                  (reqs = <<>> \/ \E i \in 1..Len(reqs) : Satisfied(i))
            /\ tapRet.errors # <<>> =>
                  tapRet.errors =
                      <<MissingPrefix \o PyStrListList(expected)>>

\* C7 witness: the sets [user, password] and [token] against {user}.
C7_Witness ==
    /\ tapRet.op = "validate_config"
    /\ option_set_requirements = << <<"user", "password">>, <<"token">> >>
    /\ tap_config = <<"user">>
    /\ tapRet.errors =
          <<"One or more required config options are missing. Please complete one or more of the following sets: [['password'], ['token']]">>

\* C8: validate_config's warnings are one 'Unexpected config option found'
\* entry per configuration key outside accepted_options, nothing else,
\* whatever the option-set requirements are.
C8_WarningsAreUnexpectedKeys ==
    tapRet.op = "validate_config" =>
        LET NotAccepted(k) == ~(k \in accepted_options)
            unexpected == SelectSeq(tap_config, NotAccepted)
        IN  /\ Len(tapRet.warnings) = Len(unexpected)
            /\ \A i \in 1..Len(unexpected) :
                  tapRet.warnings[i] =
                      "Unexpected config option found: " \o unexpected[i] \o "."
            /\ (\A i \in 1..Len(tap_config) :
                    tap_config[i] \in accepted_options)
                  => tapRet.warnings = <<>>

\* C8 witness: one unexpected key among two, with option sets declared and
\* none of them satisfied.
C8_Witness ==
    /\ tapRet.op = "validate_config"
    /\ tap_config = <<"user", "token">>
    /\ accepted_options = {"user", "password"}
    /\ option_set_requirements = << <<"user", "password">> >>
    /\ tapRet.warnings = <<"Unexpected config option found: token.">>
    /\ tapRet.errors # <<>>

\* ----------------------------------------------------------- query claims

IsExecute(e) == e.ev = "execute"

\* The statements the current call has passed to cur.execute, in order.
Executed ==
    LET ex == SelectSeq(qLog, IsExecute) IN [i \in 1..Len(ex) |-> ex[i].sql]

\* What the call is to execute: for a list, the transaction statement
\* followed by the list; for a single statement, that statement.
Expected ==
    IF qArg.isList THEN <<"START TRANSACTION">> \o qArg.stmts ELSE qArg.stmts

CountOf(e) == Cardinality({i \in 1..Len(qLog) : qLog[i].ev = e})

\* One connection and one cursor, opened before anything is executed.
OneConnectionOneCursor ==
    /\ CountOf("connect") = 1
    /\ CountOf("cursor") = 1
    /\ qLog[1].ev = "connect"
    /\ qLog[2].ev = "cursor"

C10_GuardRaisesTooManyRecords ==
    qPc # "idle" =>
        LET n == Len(qCounts)
            Over(i) == max_records # 0 /\ qCounts[i] > max_records
        IN  /\ (\E i \in 1..n : Over(i)) =>
                  /\ qPc = "raised"
                  /\ qExit.kind = "raise"
                  /\ qExit.exc = "TooManyRecordsException"
                  /\ \A i \in 1..n : Over(i) => i = n
                  /\ Len(Executed) = n
                  /\ \A j \in 1..Len(qLog) :
                        qLog[j].ev = "fetchall" => qLog[j].k # n
                  /\ qExit.val = <<>>
            /\ max_records = 0 => qExit.at # "guard"

\* C11: a call that returns (the guard did not fire) returns all rows of
\* the last executed statement that reported a positive row count, START
\* TRANSACTION included, and the empty list when no statement did; rows of
\* earlier statements are not in it.
C11_ReturnsRowsOfLastRowReturningStatement ==
    qPc = "returned" =>
        LET positive == {i \in 1..Len(qCounts) : qCounts[i] > 0}
            last == CHOOSE i \in positive : \A j \in positive : j <= i
        IN  /\ Len(qCounts) = Len(queries)
            /\ positive = {} => qExit.val = <<>>
            /\ positive # {} =>
                  /\ Len(qExit.val) = qCounts[last]
                  /\ \A r \in 1..Len(qExit.val) : qExit.val[r] = <<last, r>>

\* C11 witness: START TRANSACTION reported one row, the next statement two,
\* the last none; the two rows of the second statement were returned.
C11_Witness ==
    /\ qPc = "returned"
    /\ qCounts = <<1, 2, 0>>
    /\ qExit.val = << <<2, 1>>, <<2, 2>> >>

\* C17: whenever a query call has ended, by returning, by the guard's
\* failure or by a statement error, the one cursor and the one connection
\* it opened have been closed, cursor first, and nothing stays open.
C17_CursorAndConnectionClosedOnEveryExit ==
    /\ qPc \in {"returned", "raised"} =>
          /\ qOpen = {}
          /\ CountOf("connect") = 1
          /\ CountOf("cursor") = 1
          /\ CountOf("close_cursor") = 1
          /\ CountOf("close_connection") = 1
          /\ qLog[Len(qLog) - 1].ev = "close_cursor"
          /\ qLog[Len(qLog)].ev = "close_connection"
    /\ qPc = "idle" => (qOpen = {} /\ qLog = <<>>)
    /\ qPc = "loop" =>
          /\ qOpen = {"connection", "cursor"}
          /\ CountOf("close_cursor") = 0
          /\ CountOf("close_connection") = 0

\* C17 witness: a call ended on a statement error after one statement had
\* fetched its rows.
C17_Witness ==
    /\ qPc = "raised"
    /\ qExit.exc = "StatementError"
    /\ CountOf("fetchall") = 1
    /\ qOpen = {}

\* ---------------------------------------------------------- specifications

\* The Sink, with no Tap in the picture.
Init == SinkInit /\ TapNew /\ QueryIdle /\ OneSink /\ RecordIdle

Next == SinkNext

Spec == Init /\ [][Next]_vars

\* The Sink under a subclass whose override may replace the buffer. The
\* histories start_drain keeps are of list buffers, so start_drain is taken
\* here only while the buffer is a list.
InitOverride == SinkInit /\ TapNew /\ QueryIdle /\ OneSink /\ RecordIdle

StartDrainOfList == records_to_drain \in 1..Len(heap) /\ StartDrain

NextOverride ==
    \/ LoadRecord
    \/ OverrideReplacesBuffer
    \/ StartDrainOfList
    \/ MarkDrained
    \/ TallyRecordRead

SpecOverride == InitOverride /\ [][NextOverride]_vars

\* Two Sinks, the calls being made on the first.
InitTwoSinks == TwoSinksInit /\ TapNew /\ QueryIdle /\ RecordIdle

NextTwoSinks ==
    \/ LoadRecord
    \/ StartDrain
    \/ MarkDrained
    \/ TallyRecordRead
    \/ TallyRecordWritten
    \/ TallyDuplicateMerged

SpecTwoSinks == InitTwoSinks /\ [][NextTwoSinks]_vars

\* One record through the Sink's record processing.
InitRecord == SinkInit /\ TapNew /\ QueryIdle /\ OneSink /\ RecordInit

NextRecord == RecordNext

SpecRecord == InitRecord /\ [][NextRecord]_vars

\* One Tap object, from before its constructor runs.
InitTap == SinkInit /\ TapNew /\ QueryIdle /\ OneSink /\ RecordIdle

NextTap == TapNext

SpecTap == InitTap /\ [][NextTap]_vars

\* validate_config applied to every combination of the attributes it reads.
InitValidate ==
    SinkInit /\ ValidateInit /\ QueryIdle /\ OneSink /\ RecordIdle

NextValidate == ValidateConfig

SpecValidate == InitValidate /\ [][NextValidate]_vars

\* Calls of query(), one after the other.
InitQuery == SinkInit /\ TapNew /\ QueryIdle /\ OneSink /\ RecordIdle

NextQuery == QueryNext

SpecQuery == InitQuery /\ [][NextQuery]_vars

=============================================================================
